---- MODULE Spec2Model ----
(***************************************************************************)
(* Model of the two programs of the repository:                            *)
(*   guessing_game.py            the console guessing game (GuessingGame)   *)
(*   documentation_generator.py  the report builder (DocumentationGenerator)*)
(* Text is modelled as sequences of one-character strings, so that int(),  *)
(* str.strip() and re.findall() are computed character by character.       *)
(***************************************************************************)
EXTENDS Integers, Sequences, FiniteSets, TLC

\* ------------------------------------------------------------------ bounds
\* most statements and comment lines of the first source file
MaxItems == 4
\* longest console input line that is enumerated
MaxLineLen == 2
\* rounds after which the menu no longer offers a new game
MaxGames == 3

VARIABLES
    \* GuessingGame fields
    min_range, max_range, total_games, wins,
    \* control point of main()/show_menu()/play_round()/get_user_guess()
    pc,
    \* locals of play_round
    secret_number, user_guess,
    \* the console: the line get_user_guess read last, the last message
    \* printed, the statistics block the last step printed (if any)
    line, out, stats,
    \* history: completed calls of play_round, and those whose check_guess
    \* returned true
    rounds_done, rounds_won,
    \* the report builder: the source files on disk, the file at the output
    \* path, the control point of main(), DocumentationGenerator.comments_data
    \* and .doc, and the messages printed so far
    fs, out_file, pcd, comments_data, doc, log

gameVars == <<min_range, max_range, total_games, wins, pc, secret_number,
              user_guess, line, out, stats, rounds_done, rounds_won>>

docVars == <<fs, out_file, pcd, comments_data, doc, log>>

vars == <<gameVars, docVars>>

\* ------------------------------------------------------------------- text
Alphabet == {"0", "1", "2", "3", "5", "-", " ", "a"}

RECURSIVE SeqsUpTo(_, _)
SeqsUpTo(S, n) ==
    IF n = 0 THEN {<<>>}
    ELSE LET shorter == SeqsUpTo(S, n - 1)
         IN  shorter \cup {Append(s, c) : s \in {t \in shorter : Len(t) = n - 1}, c \in S}

Lines == SeqsUpTo(Alphabet, MaxLineLen)

IsSpace(c) == c = " "
IsDigit(c) == c \in {"0", "1", "2", "3", "5"}
DigitVal(c) ==
    CASE c = "0" -> 0 [] c = "1" -> 1 [] c = "2" -> 2
      [] c = "3" -> 3 [] c = "5" -> 5

RECURSIVE lstrip(_)
lstrip(s) == IF s # <<>> /\ IsSpace(Head(s)) THEN lstrip(Tail(s)) ELSE s

RECURSIVE rstrip(_)
rstrip(s) ==
    IF s # <<>> /\ IsSpace(s[Len(s)]) THEN rstrip(SubSeq(s, 1, Len(s) - 1)) ELSE s

\* str.strip()
strip(s) == rstrip(lstrip(s))

\* the digits of an int() literal: at least one digit, single underscores
\* allowed only between two digits
RECURSIVE WellFormedDigits(_)
WellFormedDigits(s) ==
    /\ s # <<>>
    /\ IsDigit(Head(s))
    /\ \/ Len(s) = 1
       \/ IsDigit(s[2]) /\ WellFormedDigits(Tail(s))
       \/ s[2] = "_" /\ Len(s) >= 3 /\ WellFormedDigits(SubSeq(s, 3, Len(s)))

RECURSIVE DigitsValue(_, _)
DigitsValue(s, acc) ==
    IF s = <<>> THEN acc
    ELSE IF Head(s) = "_" THEN DigitsValue(Tail(s), acc)
    ELSE DigitsValue(Tail(s), 10 * acc + DigitVal(Head(s)))

\* int(text): [ok |-> FALSE] stands for ValueError
int(s) ==
    LET t == strip(s)
        signed == t # <<>> /\ Head(t) \in {"-", "+"}
        body == IF signed THEN Tail(t) ELSE t
    IN  IF WellFormedDigits(body)
        THEN [ok |-> TRUE,
              val |-> IF signed /\ Head(t) = "-"
                      THEN 0 - DigitsValue(body, 0) ELSE DigitsValue(body, 0)]
        ELSE [ok |-> FALSE, val |-> 0]

\* ------------------------------------------------------------ GuessingGame
NoStats == [shown |-> FALSE]

\* GuessingGame.__init__ and the entry into show_menu
GameStart ==
    /\ min_range = 1
    /\ max_range = 5
    /\ total_games = 0
    /\ wins = 0
    /\ pc = "menu"
    /\ secret_number = 0
    /\ user_guess = 0
    /\ line = <<>>
    /\ out = "welcome"
    /\ stats = NoStats
    /\ rounds_done = 0
    /\ rounds_won = 0

Fields == <<min_range, max_range, total_games, wins>>
History == <<rounds_done, rounds_won>>

check_guess_at_least(g, s) == g >= s

check_guess(g, s) == g = s

win_percentage_truncated(w, t) == (1000 * w) \div t

\* f"{win_percentage:.1f}" of (wins / total_games) * 100, in tenths of a
\* percent: the quotient rounded to the nearest tenth (the float quotient
\* rounds the same way; no tie occurs for total_games < 16)
win_percentage(w, t) == (2000 * w + t) \div (2 * t)

generate_random_number_below_max ==
    /\ pc = "draw"
    /\ \E n \in min_range .. max_range - 1 : secret_number' = n
    /\ out' = "secret_generated"
    /\ pc' = "guess"
    /\ line' = <<>>
    /\ stats' = NoStats
    /\ UNCHANGED <<Fields, History, user_guess>>

generate_random_number ==
    /\ pc = "draw"
    /\ \E n \in min_range .. max_range : secret_number' = n
    /\ out' = "secret_generated"
    /\ pc' = "guess"
    /\ line' = <<>>
    /\ stats' = NoStats
    /\ UNCHANGED <<Fields, History, user_guess>>

get_user_guess_below_max(text) ==
    /\ pc = "guess"
    /\ line' = text
    /\ LET r == int(text)
       IN  IF r.ok
           THEN IF min_range <= r.val /\ r.val < max_range
                THEN /\ user_guess' = r.val
                     /\ pc' = "check"
                     /\ out' = out
                ELSE /\ out' = "enter_a_number_between"
                     /\ UNCHANGED <<user_guess, pc>>
           ELSE /\ out' = "invalid_input"
                /\ UNCHANGED <<user_guess, pc>>
    /\ UNCHANGED <<Fields, History, secret_number, stats>>

get_user_guess_counts_rejections(text) ==
    /\ pc = "guess"
    /\ line' = text
    /\ LET r == int(text)
       IN  IF r.ok /\ min_range <= r.val /\ r.val <= max_range
           THEN /\ user_guess' = r.val
                /\ pc' = "check"
                /\ out' = out
                /\ total_games' = total_games
           ELSE /\ out' = IF r.ok THEN "enter_a_number_between" ELSE "invalid_input"
                /\ total_games' = total_games + 1
                /\ UNCHANGED <<user_guess, pc>>
    /\ UNCHANGED <<min_range, max_range, wins, History, secret_number, stats>>

\* one iteration of the loop of get_user_guess
get_user_guess(text) ==
    /\ pc = "guess"
    /\ line' = text
    /\ LET r == int(text)
       IN  IF r.ok
           THEN IF min_range <= r.val /\ r.val <= max_range
                THEN /\ user_guess' = r.val
                     /\ pc' = "check"
                     /\ out' = out
                ELSE /\ out' = "enter_a_number_between"
                     /\ UNCHANGED <<user_guess, pc>>
           ELSE /\ out' = "invalid_input"
                /\ UNCHANGED <<user_guess, pc>>
    /\ UNCHANGED <<Fields, History, secret_number, stats>>

play_round_check_penalty ==
    /\ pc = "check"
    /\ IF check_guess(user_guess, secret_number)
       THEN /\ out' = "you_win"
            /\ wins' = wins + 1
       ELSE /\ out' = "you_loose"
            /\ wins' = wins - 1
    /\ pc' = "count"
    /\ line' = <<>>
    /\ UNCHANGED <<min_range, max_range, total_games, History, secret_number,
                   user_guess, stats>>

\* play_round, lines 105-109; the line read by get_user_guess is consumed
play_round_check ==
    /\ pc = "check"
    /\ IF check_guess(user_guess, secret_number)
       THEN /\ out' = "you_win"
            /\ wins' = wins + 1
       ELSE /\ out' = "you_loose"
            /\ wins' = wins
    /\ pc' = "count"
    /\ line' = <<>>
    /\ UNCHANGED <<min_range, max_range, total_games, History, secret_number,
                   user_guess, stats>>

play_round_count_only_losses ==
    /\ pc = "count"
    /\ total_games' = IF out = "you_win" THEN total_games ELSE total_games + 1
    /\ rounds_done' = rounds_done + 1
    /\ rounds_won' = rounds_won + (IF out = "you_win" THEN 1 ELSE 0)
    /\ pc' = "menu"
    /\ secret_number' = 0
    /\ user_guess' = 0
    /\ UNCHANGED <<min_range, max_range, wins, line, out, stats>>

\* play_round, line 111, and the return to show_menu: the locals
\* secret_number and user_guess go out of scope, the round enters the history
play_round_count ==
    /\ pc = "count"
    /\ total_games' = total_games + 1
    /\ rounds_done' = rounds_done + 1
    /\ rounds_won' = rounds_won + (IF out = "you_win" THEN 1 ELSE 0)
    /\ pc' = "menu"
    /\ secret_number' = 0
    /\ user_guess' = 0
    /\ UNCHANGED <<min_range, max_range, wins, line, out, stats>>

\* stats.tenths is the percentage printed, in tenths of a percent;
\* stats.divisor is the divisor of the division made, -1 when none is made
display_statistics ==
    /\ out' = "statistics"
    /\ IF total_games > 0
       THEN stats' = [shown |-> TRUE, games |-> total_games, won |-> wins,
                      lost |-> total_games - wins, divisor |-> total_games,
                      tenths |-> win_percentage(wins, total_games)]
       ELSE stats' = [shown |-> TRUE, games |-> total_games, won |-> wins,
                      lost |-> total_games - wins, divisor |-> -1,
                      tenths |-> 0]
    /\ UNCHANGED <<Fields, History, pc, secret_number, user_guess, line>>

\* one iteration of the loop of show_menu
show_menu(text) ==
    /\ pc = "menu"
    /\ LET choice == strip(text)
       IN  CASE choice = <<"1">> ->
                  /\ total_games < MaxGames
                  /\ pc' = "draw"
                  /\ out' = "new_game_round"
                  /\ stats' = NoStats
                  /\ UNCHANGED <<Fields, History, secret_number, user_guess,
                                 line>>
             [] choice = <<"2">> -> display_statistics
             [] choice = <<"3">> ->
                  /\ pc' = "exited"
                  /\ out' = "goodbye"
                  /\ stats' = NoStats
                  /\ UNCHANGED <<Fields, History, secret_number, user_guess,
                                 line>>
             [] OTHER ->
                  /\ out' = "invalid_choice"
                  /\ stats' = NoStats
                  /\ UNCHANGED <<Fields, History, pc, secret_number,
                                 user_guess, line>>

\* --------------------------------------------------- DocumentationGenerator
GamePath == "guessing_game.py"
GeneratorPath == "documentation_generator.py"

\* a statement of a syntax tree: an Expr statement is a string constant here
Stmt(type, name, value, body) ==
    [type |-> type, name |-> name, value |-> value, body |-> body]

\* pieces of Python source: the text lines, the statements the lines parse
\* to, and whether the lines are valid syntax
\*   # a
CommentItem ==
    [lines |-> << <<"#", " ", "a", " ">> >>, stmts |-> <<>>, ok |-> TRUE]
\*   s='#c'
HashStrItem ==
    [lines |-> << <<"s", "=", "'", "#", "c", "'">> >>,
     stmts |-> <<Stmt("Assign", "", <<>>, <<>>)>>, ok |-> TRUE]
\*   ' m'
StringItem ==
    [lines |-> << <<"'", " ", "m", "'">> >>,
     stmts |-> <<Stmt("Expr", "", <<" ", "m">>, <<>>)>>, ok |-> TRUE]
\*   def f():
\*    ' d'
DefDocItem ==
    [lines |-> << <<"d", "e", "f", " ", "f", "(", ")", ":">>,
                  <<" ", "'", " ", "d", "'">> >>,
     stmts |-> <<Stmt("FunctionDef", "f", <<>>,
                      <<Stmt("Expr", "", <<" ", "d">>, <<>>)>>)>>,
     ok |-> TRUE]
\*   x=(
BadItem ==
    [lines |-> << <<"x", "=", "(">> >>, stmts |-> <<>>, ok |-> FALSE]
\*   class C:
\*    'k '
ClassDocItem ==
    [lines |-> << <<"c", "l", "a", "s", "s", " ", "C", ":">>,
                  <<" ", "'", "k", " ", "'">> >>,
     stmts |-> <<Stmt("ClassDef", "C", <<>>,
                      <<Stmt("Expr", "", <<"k", " ">>, <<>>)>>)>>,
     ok |-> TRUE]
\*   def g():
\*    x=1 # b
DefNoDocItem ==
    [lines |-> << <<"d", "e", "f", " ", "g", "(", ")", ":">>,
                  <<" ", "x", "=", "1", " ", "#", " ", "b">> >>,
     stmts |-> <<Stmt("FunctionDef", "g", <<>>,
                      <<Stmt("Assign", "", <<>>, <<>>)>>)>>,
     ok |-> TRUE]
\*   #
BareHashItem ==
    [lines |-> << <<"#">> >>, stmts |-> <<>>, ok |-> TRUE]

Catalogue == {CommentItem, HashStrItem, StringItem, DefDocItem, BadItem}

\* a file on disk; Missing makes open() raise
File(items) == [readable |-> TRUE, items |-> items]
Missing == [readable |-> FALSE, items |-> <<>>]

FirstFiles == {File(items) : items \in SeqsUpTo(Catalogue, MaxItems)} \cup {Missing}

SecondFiles ==
    {Missing,
     File(<<>>),
     File(<<ClassDocItem, BareHashItem>>),
     File(<<StringItem, DefNoDocItem>>),
     File(<<CommentItem, BadItem>>)}

RECURSIVE Flatten(_)
Flatten(ss) == IF ss = <<>> THEN <<>> ELSE Head(ss) \o Flatten(Tail(ss))

\* file.read(): the text, line by line
read(content) == Flatten([i \in 1 .. Len(content.items) |-> content.items[i].lines])

\* the leftmost match of #(.+) in a line at or after position i: the group
\* (.+) takes the rest of the line and needs one character at least
RECURSIVE search(_, _)
search(l, i) ==
    IF i > Len(l) THEN <<>>
    ELSE IF l[i] = "#" /\ i < Len(l) THEN <<SubSeq(l, i + 1, Len(l))>>
    ELSE search(l, i + 1)

\* re.findall(r'#(.+)', content)
findall(text) == Flatten([i \in 1 .. Len(text) |-> search(text[i], 1)])

\* ast.parse(content): the Module node; callers check SyntaxOk first
SyntaxOk(content) == \A i \in 1 .. Len(content.items) : content.items[i].ok

ast_parse(content) ==
    Stmt("Module", "Module", <<>>,
         Flatten([i \in 1 .. Len(content.items) |-> content.items[i].stmts]))

\* ast.walk(tree), breadth first
walk(tree) ==
    <<tree>> \o tree.body
    \o Flatten([i \in 1 .. Len(tree.body) |-> tree.body[i].body])

\* inspect.cleandoc of a one-line docstring: leading whitespace goes,
\* trailing whitespace stays
cleandoc(value) == lstrip(value)

\* ast.get_docstring(node); <<>> stands for None and for ''
get_docstring(node) ==
    IF node.body # <<>> /\ node.body[1].type = "Expr"
    THEN cleandoc(node.body[1].value)
    ELSE <<>>

IsDocumented(node) ==
    /\ node.type \in {"FunctionDef", "ClassDef", "Module"}
    /\ get_docstring(node) # <<>>

\* the loop of parse_python_file, lines 67-75
extract_docstrings(tree) ==
    LET nodes == SelectSeq(walk(tree), IsDocumented)
    IN  [i \in 1 .. Len(nodes) |->
            [type |-> nodes[i].type, name |-> nodes[i].name,
             docstring |-> get_docstring(nodes[i])]]

Message(msg, path) == [msg |-> msg, path |-> path]

parse_python_file_keeps_comments(file_path) ==
    LET content == fs[file_path]
    IN  IF content.readable
        THEN /\ comments_data' =
                  Append(comments_data,
                         [file_path |-> file_path,
                          comments |-> findall(read(content)),
                          docstrings |->
                              IF SyntaxOk(content)
                              THEN extract_docstrings(ast_parse(content))
                              ELSE <<>>])
             /\ log' = IF SyntaxOk(content) THEN log
                       ELSE Append(log, Message("error_parsing", file_path))
        ELSE /\ comments_data' = comments_data
             /\ log' = Append(log, Message("error_parsing", file_path))

parse_python_file(file_path) ==
    LET content == fs[file_path]
    IN  IF content.readable /\ SyntaxOk(content)
        THEN /\ comments_data' =
                  Append(comments_data,
                         [file_path |-> file_path,
                          comments |-> findall(read(content)),
                          docstrings |-> extract_docstrings(ast_parse(content))])
             /\ log' = log
        ELSE /\ comments_data' = comments_data
             /\ log' = Append(log, Message("error_parsing", file_path))

\* main, line 220
main_parse_first ==
    /\ pcd = "start"
    /\ parse_python_file(GamePath)
    /\ pcd' = "parsed_first"
    /\ UNCHANGED <<fs, out_file, doc>>

\* main, line 221
main_parse_second ==
    /\ pcd = "parsed_first"
    /\ parse_python_file(GeneratorPath)
    /\ pcd' = "generate"
    /\ UNCHANGED <<fs, out_file, doc>>

\* an element of the Document: a heading or a paragraph
Element(style, label, path, name, index, body) ==
    [style |-> style, label |-> label, path |-> path, name |-> name,
     index |-> index, body |-> body]

create_title_page ==
    << Element("Title", "Python Guessing Game Documentation", "", "", 0, <<>>),
       Element("Paragraph", "", "", "", 0, <<>>),
       Element("Paragraph", "Generated on / Author / Version", "", "", 0, <<>>),
       Element("PageBreak", "", "", "", 0, <<>>) >>

create_table_of_contents ==
    << Element("Heading 1", "Table of Contents", "", "", 0, <<>>),
       Element("Paragraph", "toc", "", "", 0, <<>>),
       Element("PageBreak", "", "", "", 0, <<>>) >>

create_introduction ==
    << Element("Heading 1", "1. Introduction", "", "", 0, <<>>),
       Element("Paragraph", "intro", "", "", 0, <<>>),
       Element("Paragraph", "", "", "", 0, <<>>),
       Element("Paragraph", "Key Features:", "", "", 0, <<>>) >>

IsModuleDoc(d) == d.type = "Module"
IsClassOrFunctionDoc(d) == d.type \in {"ClassDef", "FunctionDef"}

create_file_documentation(data) ==
    <<Element("Heading 1", "2. File Documentation", "", "", 0, <<>>)>>
    \o Flatten([i \in 1 .. Len(data) |->
         <<Element("Heading 2", "File: ", data[i].file_path, "", 0, <<>>)>>
         \o LET docs == SelectSeq(data[i].docstrings, IsModuleDoc)
            IN  [j \in 1 .. Len(docs) |->
                    Element("Paragraph", "Module Documentation:", "", "", 0,
                            docs[j].docstring)]])

create_class_function_docs(data) ==
    <<Element("Heading 1", "3. Class and Function Documentation", "", "", 0, <<>>)>>
    \o Flatten([i \in 1 .. Len(data) |->
         LET docs == SelectSeq(data[i].docstrings, IsClassOrFunctionDoc)
         IN  Flatten([j \in 1 .. Len(docs) |->
                <<Element("Heading 3", docs[j].type, "", docs[j].name, 0, <<>>),
                  Element("Paragraph", "", "", "", 0, docs[j].docstring),
                  Element("Paragraph", "", "", "", 0, <<>>)>>])])

create_comments_section(data) ==
    <<Element("Heading 1", "4. Code Comments", "", "", 0, <<>>)>>
    \o Flatten([i \in 1 .. Len(data) |->
         <<Element("Heading 2", "Comments from ", data[i].file_path, "", 0, <<>>)>>
         \o IF data[i].comments # <<>>
            THEN [j \in 1 .. Len(data[i].comments) |->
                    Element("Paragraph", "Comment", "", "", j,
                            strip(data[i].comments[j]))]
            ELSE <<Element("Paragraph", "No comments found in this file.",
                           "", "", 0, <<>>)>>])

\* the document a previous run left at the output path
OldDocument ==
    create_title_page
    \o <<Element("Heading 2", "File: ", "old_game.py", "", 0, <<>>)>>

NoFile == [exists |-> FALSE, content |-> <<>>]
Stored(content) == [exists |-> TRUE, content |-> content]

\* os.remove either deletes the file or raises
cleanup_old_documentation ==
    /\ pcd = "generate"
    /\ IF out_file.exists
       THEN \/ /\ out_file' = NoFile
               /\ log' = Append(log, Message("deleted_old", ""))
            \/ /\ out_file' = out_file
               /\ log' = Append(log, Message("warning_not_deleted", ""))
       ELSE /\ out_file' = out_file
            /\ log' = Append(log, Message("no_old_documentation", ""))
    /\ pcd' = "sections"
    /\ UNCHANGED <<fs, comments_data, doc>>

\* generate_documentation, lines 196-201
create_sections ==
    /\ pcd = "sections"
    /\ doc' = doc \o create_title_page \o create_table_of_contents
              \o create_introduction
              \o create_file_documentation(comments_data)
              \o create_class_function_docs(comments_data)
              \o create_comments_section(comments_data)
    /\ pcd' = "save"
    /\ UNCHANGED <<fs, out_file, comments_data, log>>

save_document_appends ==
    /\ pcd = "save"
    /\ \/ /\ out_file' = Stored(out_file.content \o doc)
          /\ log' = Append(log, Message("generated", ""))
          /\ pcd' = "done"
       \/ /\ out_file' = out_file
          /\ log' = log
          /\ pcd' = "failed"
    /\ UNCHANGED <<fs, comments_data, doc>>

\* generate_documentation, lines 204-212: Document.save either replaces the
\* file at the path or raises, which ends the process
save_document ==
    /\ pcd = "save"
    /\ \/ /\ out_file' = Stored(doc)
          /\ log' = Append(log, Message("generated", ""))
          /\ pcd' = "done"
       \/ /\ out_file' = out_file
          /\ log' = log
          /\ pcd' = "failed"
    /\ UNCHANGED <<fs, comments_data, doc>>

\* DocumentationGenerator.__init__ and the files main() finds on disk
DocStart ==
    /\ \E first \in FirstFiles, second \in SecondFiles :
          fs = (GamePath :> first) @@ (GeneratorPath :> second)
    /\ out_file \in {NoFile, Stored(OldDocument)}
    /\ pcd = "start"
    /\ comments_data = <<>>
    /\ doc = <<>>
    /\ log = <<>>

\* the report builder before it is started
DocIdle ==
    /\ fs = <<>>
    /\ out_file = NoFile
    /\ pcd = "idle"
    /\ comments_data = <<>>
    /\ doc = <<>>
    /\ log = <<>>

\* ---------------------------------------------------------- specifications
\* guessing_game.py: main() of the game; the report builder is not running
InitGame == GameStart /\ DocIdle

NextGame ==
    \/ \E text \in Lines : show_menu(text) /\ UNCHANGED docVars
    \/ generate_random_number /\ UNCHANGED docVars
    \/ \E text \in Lines : get_user_guess(text) /\ UNCHANGED docVars
    \/ play_round_check /\ UNCHANGED docVars
    \/ play_round_count /\ UNCHANGED docVars

SpecGame == InitGame /\ [][NextGame]_vars

\* documentation_generator.py: main() of the report builder; the game is
\* not running
InitDoc == DocStart /\ GameStart

NextDoc ==
    \/ main_parse_first /\ UNCHANGED gameVars
    \/ main_parse_second /\ UNCHANGED gameVars
    \/ cleanup_old_documentation /\ UNCHANGED gameVars
    \/ create_sections /\ UNCHANGED gameVars
    \/ save_document /\ UNCHANGED gameVars

SpecDoc == InitDoc /\ [][NextDoc]_vars

\* ------------------------------------------------------- claims: the game
Abs(n) == IF n < 0 THEN 0 - n ELSE n

InRange(n) == min_range <= n /\ n <= max_range

\* C1: after N completed calls of play_round, W of them with check_guess
\* true, total_games = N and wins = W; inside a round that has made its
\* comparison, wins is ahead by one exactly when the guess equals the secret
C1_CountersFollowRounds ==
    /\ total_games = rounds_done
    /\ pc # "count" => wins = rounds_won
    /\ pc = "count" =>
         wins = rounds_won + (IF user_guess = secret_number THEN 1 ELSE 0)

C1_Witness == pc = "menu" /\ rounds_done = 3 /\ rounds_won = 1

\* C2 as stated: 0 <= wins <= total_games in every reachable state, the
\* states inside play_round included
C2_AlwaysBounded == 0 <= wins /\ wins <= total_games

\* C2 amended: 0 <= wins <= total_games in every state but the one between
\* the update of wins and the update of total_games, where wins may be
\* total_games + 1
C2_BoundedOutsideUpdate ==
    /\ 0 <= wins
    /\ pc # "count" => wins <= total_games
    /\ pc = "count" => wins <= total_games + 1

C2_Witness == pc = "count" /\ wins = total_games + 1 /\ total_games = 1

\* C3: in get_user_guess a line is accepted exactly when it parses as an
\* integer within [min_range, max_range], the value returned is that of the
\* accepted line, and any other line prints its own message and prompts again
C3_GuessLoop ==
    [][pc = "guess" =>
         /\ pc' \in {"guess", "check"}
         /\ (pc' = "check") <=> (int(line').ok /\ InRange(int(line').val))
         /\ pc' = "check" => user_guess' = int(line').val /\ out' = out
         /\ pc' = "guess" =>
              out' = IF int(line').ok THEN "enter_a_number_between"
                     ELSE "invalid_input"]_vars

C3_Witness ==
    /\ pc = "check"
    /\ out = "enter_a_number_between"
    /\ line = <<" ", "5">>
    /\ user_guess = 5

\* C4: every secret drawn lies in [min_range, max_range] = [1, 5], and at
\* every draw each value of the range can be the result
C4_SecretInRange ==
    /\ pc \in {"guess", "check", "count"} =>
         InRange(secret_number) /\ secret_number \in 1 .. 5
    /\ pc = "draw" =>
         \A n \in 1 .. 5 : ENABLED (generate_random_number /\ secret_number' = n)

C4_Witness == pc = "guess" /\ secret_number = 5 /\ total_games = 2

\* C5: check_guess(g, s) is true exactly when g = s, and a round prints the
\* win message and counts a win exactly when the guess equals the secret
C5_WinIffEqual ==
    /\ \A g, s \in min_range .. max_range : check_guess(g, s) <=> g = s
    /\ pc = "count" =>
         /\ (out = "you_win") <=> (user_guess = secret_number)
         /\ (out = "you_loose") <=> (user_guess # secret_number)
         /\ (wins = rounds_won + 1) <=> (user_guess = secret_number)
         /\ (wins = rounds_won) <=> (user_guess # secret_number)

C5_Witness ==
    pc = "count" /\ out = "you_win" /\ user_guess = 3 /\ wins = 2

\* C6 as stated: the percentage shown is exactly wins / total_games * 100
C6_ExactPercentage ==
    stats.shown /\ stats.games > 0 =>
        stats.tenths * stats.games = 1000 * stats.won

\* C6 amended: the percentage shown is wins / total_games * 100 rounded to
\* one decimal place when total_games > 0 and 0, with no division made,
\* when total_games = 0; no division has a zero divisor
C6_RoundedPercentage ==
    stats.shown =>
        /\ stats.games = total_games /\ stats.won = wins
        /\ stats.divisor # 0
        /\ IF stats.games > 0
           THEN /\ stats.divisor = stats.games
                /\ 2 * Abs(stats.tenths * stats.games - 1000 * stats.won)
                     <= stats.games
           ELSE stats.divisor = -1 /\ stats.tenths = 0

C6_Witness ==
    stats.shown /\ stats.games = 3 /\ stats.won = 2 /\ stats.tenths = 667

\* C10: min_range, max_range, total_games and wins change only in the two
\* updating statements of play_round, and min_range and max_range never
C10_OnlyPlayRoundWrites ==
    [][/\ pc \notin {"check", "count"} => UNCHANGED Fields
       /\ min_range' = min_range
       /\ max_range' = max_range]_vars

C10_Witness ==
    /\ pc = "guess"
    /\ out = "invalid_input"
    /\ total_games = 2
    /\ wins = 1

\* --------------------------------------------- claims: the report builder
\* the files main() has passed to parse_python_file so far
Parsed ==
    CASE pcd = "start" -> <<>>
      [] pcd = "parsed_first" -> <<GamePath>>
      [] OTHER -> <<GamePath, GeneratorPath>>

Fails(path) ==
    \/ ~fs[path].readable
    \/ \E i \in 1 .. Len(fs[path].items) : ~fs[path].items[i].ok

Succeeds(path) == ~Fails(path)

Logged(msg, path) == \E i \in 1 .. Len(log) : log[i] = Message(msg, path)

Mentions(elements, path) ==
    \E i \in 1 .. Len(elements) : elements[i].path = path

\* C7: a file whose reading or parsing fails gets an error message and no
\* entry in comments_data, not even its matched comments; the entries of the
\* other files are there, complete and in the order parsed; the report has
\* no section for the failed file
C7_FailedFileSkipped ==
    LET good == SelectSeq(Parsed, Succeeds)
    IN  /\ Len(comments_data) = Len(good)
        /\ \A k \in 1 .. Len(good) :
             /\ comments_data[k].file_path = good[k]
             /\ comments_data[k].comments = findall(read(fs[good[k]]))
             /\ comments_data[k].docstrings =
                  extract_docstrings(ast_parse(fs[good[k]]))
             /\ ~Logged("error_parsing", good[k])
        /\ \A k \in 1 .. Len(Parsed) :
             Fails(Parsed[k]) =>
                 /\ Logged("error_parsing", Parsed[k])
                 /\ \A j \in 1 .. Len(comments_data) :
                      comments_data[j].file_path # Parsed[k]
                 /\ ~Mentions(doc, Parsed[k])
                 /\ ~Mentions(out_file.content, Parsed[k])

C7_Witness ==
    /\ pcd = "done"
    /\ fs[GamePath].readable
    /\ Fails(GamePath)
    /\ Len(findall(read(fs[GamePath]))) = 2
    /\ Succeeds(GeneratorPath)
    /\ Len(comments_data) = 1
    /\ Mentions(out_file.content, GeneratorPath)

CleanupMessages == {"deleted_old", "warning_not_deleted", "no_old_documentation"}

\* C8: the old file is dealt with before the document is saved, a failed
\* deletion does not stop the run, and once generate_documentation has
\* returned the output file holds the report of this run's comments_data
\* and nothing else
C8_FreshReport ==
    /\ pcd \in {"sections", "save", "failed"} =>
         /\ log # <<>> /\ log[Len(log)].msg \in CleanupMessages
         /\ out_file \in {NoFile, Stored(OldDocument)}
         /\ log[Len(log)].msg = "deleted_old" => out_file = NoFile
    /\ pcd = "failed" => doc # <<>>
    /\ pcd = "done" =>
         /\ Len(log) >= 2
         /\ log[Len(log)].msg = "generated"
         /\ log[Len(log) - 1].msg \in CleanupMessages
         /\ out_file.exists
         /\ out_file.content =
              create_title_page \o create_table_of_contents
              \o create_introduction
              \o create_file_documentation(comments_data)
              \o create_class_function_docs(comments_data)
              \o create_comments_section(comments_data)
         /\ ~Mentions(out_file.content, "old_game.py")
         /\ \A k \in 1 .. Len(comments_data) :
              Mentions(out_file.content, comments_data[k].file_path)

C8_Witness ==
    /\ pcd = "done"
    /\ Logged("warning_not_deleted", "")
    /\ Len(comments_data) = 2
    /\ out_file.content # OldDocument

\* a line holds a comment when a # stands outside every string literal
RECURSIVE HasComment(_, _, _)
HasComment(l, i, inString) ==
    IF i > Len(l) THEN FALSE
    ELSE IF l[i] = "'" THEN HasComment(l, i + 1, ~inString)
    ELSE IF l[i] = "#" /\ ~inString THEN TRUE
    ELSE HasComment(l, i + 1, inString)

CommentLines(text) ==
    Cardinality({i \in 1 .. Len(text) : HasComment(text[i], 1, FALSE)})

HasDocstring(node) ==
    /\ node.type \in {"Module", "ClassDef", "FunctionDef", "AsyncFunctionDef"}
    /\ get_docstring(node) # <<>>

Count(seq, Test(_)) == Len(SelectSeq(seq, Test))

IsFunctionDoc(d) == d.type = "FunctionDef"

Trimmed(text) == strip(text) = text

IsTrimmedDoc(d) == Trimmed(d.docstring)

\* C9: for every parsed file the number of extracted comments is the number
\* of comment lines of its source and the number of doc entries is the
\* number of module, class and function nodes with a non-empty docstring; a
\* source with one module docstring, one documented function and two
\* comment lines gives 1 Module entry, 1 FunctionDef entry and 2 comments,
\* all trimmed
C9_ExtractionCounts ==
    \A k \in 1 .. Len(comments_data) :
        LET entry == comments_data[k]
            content == fs[entry.file_path]
            text == read(content)
            nodes == walk(ast_parse(content))
        IN  /\ Len(entry.comments) = CommentLines(text)
            /\ Len(entry.docstrings) = Count(nodes, HasDocstring)
            /\ \A j \in 1 .. Len(entry.docstrings) :
                 IsTrimmedDoc(entry.docstrings[j])
            /\ ( /\ CommentLines(text) = 2
                 /\ Count(nodes, HasDocstring) = 2
                 /\ HasDocstring(nodes[1])
                 /\ \E n \in 2 .. Len(nodes) :
                      nodes[n].type = "FunctionDef" /\ HasDocstring(nodes[n]) )
               => /\ Count(entry.docstrings, IsModuleDoc) = 1
                  /\ Count(entry.docstrings, IsFunctionDoc) = 1
                  /\ Len(entry.comments) = 2

====
